---------------------------- MODULE Spec2Model ----------------------------
(***************************************************************************)
(* A model of figma_gpt_app.py: the Figma client (FigmaClient.get_file),   *)
(* the frame extractor (extract_frame_names), the feature generator        *)
(* (generate_features_from_figma) and the orchestrator (main).             *)
(*                                                                         *)
(* Python values are modelled as follows.                                  *)
(*   - A dict of the Figma document is a record whose DOMAIN is the set of *)
(*     keys the dict holds, so d.get(k, default) is a test on DOMAIN.      *)
(*   - A text (the str the completion service replies with) is a sequence  *)
(*     of lexemes [k, v]: punctuation "p", a quoted JSON string literal    *)
(*     "s", or a bare word "w".                                            *)
(*   - A value produced by json.loads is a record tagged by its Python     *)
(*     type: [const], [int], [float], [str], [list], [dict]; a parsed dict *)
(*     is the sequence of its key/value members in the order of the text.  *)
(***************************************************************************)
EXTENDS Integers, Sequences, FiniteSets

VARIABLES
    entry,        \* the callable of the module the run invokes
    pc,           \* the position of the run
    environ,      \* os.environ, read by main
    file_data,    \* the parsed Figma file (argument of extract_frame_names)
    frame_names,  \* the extracted names (argument of the generator)
    get_resp,     \* the response to the GET of get_file, NoResponse before
    post_resp,    \* the response to the POST of the generator
    requests,     \* the HTTP requests issued so far, in order
    calls,        \* the components main has invoked so far, in order
    stdout,       \* what main has printed so far, in order
    outcome,      \* how the invoked callable ended: "" while it runs
    features      \* the list the generator returned

vars == <<entry, pc, environ, file_data, frame_names, get_resp, post_resp,
          requests, calls, stdout, outcome, features>>

---------------------------------------------------------------------------
(* Bounds of the model.                                                    *)

\* pages of a document handed to extract_frame_names
MaxPages == 2
\* depth-two nodes of a document, over all its pages
MaxNodes == 2
\* elements of a JSON array in a completion reply
MaxItems == 2

---------------------------------------------------------------------------
(* Figma documents (spec section 3: Node has at least `type`; `name` and   *)
(* `children` are optional).                                               *)

HasKey(d, k) == k \in DOMAIN d

DeepFrame == [type |-> "FRAME", name |-> "Deep"]

\* The depth-two nodes the documents are built from: frames and groups,
\* named, with an empty name or with no name, and one frame and one group
\* that hold a depth-three frame.
Nodes ==
    {[type |-> t, name |-> n] : t \in {"FRAME", "GROUP"}, n \in {"", "Login", "Home"}}
    \cup {[type |-> "FRAME"]}
    \cup {[type |-> t, name |-> "Login", children |-> <<DeepFrame>>] : t \in {"FRAME", "GROUP"}}

\* The pages holding exactly k nodes; a page with none may lack `children`.
PagesOf(k) ==
    {[type |-> "CANVAS", children |-> s] : s \in [1..k -> Nodes]}
    \cup (IF k = 0 THEN {[type |-> "CANVAS"]} ELSE {})

\* The sequences of exactly p pages holding at most n nodes together.
RECURSIVE PageSeqs(_, _)
PageSeqs(p, n) ==
    IF p = 0 THEN {<<>>}
    ELSE UNION {{<<pg>> \o rest : pg \in PagesOf(k), rest \in PageSeqs(p - 1, n - k)}
                : k \in 0..n}

\* The file JSON of GET /v1/files/{key}: at most p pages, at most n nodes.
\* The `document` key or its `children` may be missing.
FilesUpTo(p, n) ==
    {[name |-> "file"], [name |-> "file", document |-> [type |-> "DOCUMENT"]]}
    \cup {[name |-> "file", document |-> [type |-> "DOCUMENT", children |-> ps]]
          : ps \in UNION {PageSeqs(q, n) : q \in 0..p}}

Files == FilesUpTo(MaxPages, MaxNodes)

\* The files a GET may answer with (one page and one node fewer than Files).
FetchedFiles == FilesUpTo(MaxPages - 1, MaxNodes - 1)

NoFile == [none |-> TRUE]

---------------------------------------------------------------------------
(* extract_frame_names                                                     *)

\* for node in page.get("children", []): if node.get("type") == "FRAME":
\*     name = node.get("name"); if name: frames.append(name)
RECURSIVE FramesOfNodes(_)
FramesOfNodes(nodes) ==
    IF nodes = <<>> THEN <<>>
    ELSE LET node == Head(nodes)
             kept == IF node.type = "FRAME" /\ HasKey(node, "name") /\ node.name # ""
                     THEN <<node.name>> ELSE <<>>
         IN  kept \o FramesOfNodes(Tail(nodes))

RECURSIVE FramesOfPages(_)
FramesOfPages(pages) ==
    IF pages = <<>> THEN <<>>
    ELSE LET page == Head(pages)
             nodes == IF HasKey(page, "children") THEN page.children ELSE <<>>
         IN  FramesOfNodes(nodes) \o FramesOfPages(Tail(pages))

\* extract_frame_names with a traversal that also descends into the
\* children of a depth-two node.
RECURSIVE FramesBelow(_)
FramesBelow(nodes) ==
    IF nodes = <<>> THEN <<>>
    ELSE LET node == Head(nodes)
         IN  FramesOfNodes(<<node>>)
             \o (IF HasKey(node, "children") THEN FramesBelow(node.children) ELSE <<>>)
             \o FramesBelow(Tail(nodes))

RECURSIVE FramesOfPagesDeep(_)
FramesOfPagesDeep(pages) ==
    IF pages = <<>> THEN <<>>
    ELSE LET page == Head(pages)
         IN  (IF HasKey(page, "children") THEN FramesBelow(page.children) ELSE <<>>)
             \o FramesOfPagesDeep(Tail(pages))

extract_frame_names_nested(fd) ==
    LET pages == IF HasKey(fd, "document") /\ HasKey(fd.document, "children")
                 THEN fd.document.children ELSE <<>>
    IN  FramesOfPagesDeep(pages)

extract_frame_names(fd) ==
    LET pages == IF HasKey(fd, "document") /\ HasKey(fd.document, "children")
                 THEN fd.document.children ELSE <<>>
    IN  FramesOfPages(pages)

---------------------------------------------------------------------------
(* Texts and json.loads                                                    *)

Punct(c) == [k |-> "p", v |-> c]
Quoted(w) == [k |-> "s", v |-> w]
Word(w) == [k |-> "w", v |-> w]

\* Python values
PyNone == [const |-> "None"]
PyTrue == [const |-> "True"]
PyInt(n) == [int |-> n]
PyNaN == [float |-> "nan"]
\* the str whose characters are those of w
PyStr(w) == [str |-> IF w = "" THEN <<>> ELSE <<Word(w)>>]
PyList(s) == [list |-> s]
PyDict(members) == [dict |-> members]

IsDict(v) == HasKey(v, "dict")
IsList(v) == HasKey(v, "list")
IsStr(v) == HasKey(v, "str")

\* d.get(key, default) on a parsed dict: the last member with that key wins.
RECURSIVE DictGet(_, _, _)
DictGet(members, key, default) ==
    IF members = <<>> THEN default
    ELSE LET last == members[Len(members)]
         IN  IF last.key = key THEN last.val
             ELSE DictGet(SubSeq(members, 1, Len(members) - 1), key, default)

ParseFail == [ok |-> FALSE]
Parsed(v, nxt) == [ok |-> TRUE, val |-> v, next |-> nxt]

\* The value of a bare word. json.loads reads the RFC 8259 literals and
\* numbers and, beyond the RFC, NaN, Infinity and -Infinity as floats
\* (`extended`); any other bare word is no JSON.
WordValue(w, i, extended) ==
    CASE w = "null" -> Parsed(PyNone, i + 1)
      [] w = "true" -> Parsed(PyTrue, i + 1)
      [] w = "5" -> Parsed(PyInt(5), i + 1)
      [] w = "NaN" /\ extended -> Parsed(PyNaN, i + 1)
      [] OTHER -> ParseFail

\* A recursive-descent parse of the value that starts at lexeme i of t.
RECURSIVE ParseValue(_, _, _), ParseItems(_, _, _, _), ParseMembers(_, _, _, _)
ParseValue(t, i, extended) ==
    IF i > Len(t) THEN ParseFail
    ELSE LET tok == t[i] IN
         CASE tok.k = "s" -> Parsed(PyStr(tok.v), i + 1)
           [] tok.k = "w" -> WordValue(tok.v, i, extended)
           [] tok = Punct("[") ->
                IF i + 1 <= Len(t) /\ t[i + 1] = Punct("]")
                THEN Parsed(PyList(<<>>), i + 2)
                ELSE ParseItems(t, i + 1, <<>>, extended)
           [] tok = Punct("{") ->
                IF i + 1 <= Len(t) /\ t[i + 1] = Punct("}")
                THEN Parsed(PyDict(<<>>), i + 2)
                ELSE ParseMembers(t, i + 1, <<>>, extended)
           [] OTHER -> ParseFail

\* value ("," value)* "]" from lexeme i on, after the items of acc.
ParseItems(t, i, acc, extended) ==
    LET item == ParseValue(t, i, extended) IN
    IF ~item.ok \/ item.next > Len(t) THEN ParseFail
    ELSE LET items == Append(acc, item.val)
             sep == t[item.next]
         IN  CASE sep = Punct("]") -> Parsed(PyList(items), item.next + 1)
               [] sep = Punct(",") -> ParseItems(t, item.next + 1, items, extended)
               [] OTHER -> ParseFail

\* string ":" value ("," string ":" value)* "}" from lexeme i on.
ParseMembers(t, i, acc, extended) ==
    IF i + 1 > Len(t) \/ t[i].k # "s" \/ t[i + 1] # Punct(":") THEN ParseFail
    ELSE LET val == ParseValue(t, i + 2, extended) IN
         IF ~val.ok \/ val.next > Len(t) THEN ParseFail
         ELSE LET members == Append(acc, [key |-> t[i].v, val |-> val.val])
                  sep == t[val.next]
              IN  CASE sep = Punct("}") -> Parsed(PyDict(members), val.next + 1)
                    [] sep = Punct(",") -> ParseMembers(t, val.next + 1, members, extended)
                    [] OTHER -> ParseFail

\* The whole text must be one value.
ParseText(t, extended) ==
    LET r == ParseValue(t, 1, extended)
    IN  IF r.ok /\ r.next = Len(t) + 1 THEN [ok |-> TRUE, val |-> r.val] ELSE ParseFail

\* json.loads(content): ParseFail stands for json.JSONDecodeError.
json_loads(t) == ParseText(t, TRUE)

\* A text of the JSON grammar of RFC 8259 (no NaN).
IsValidJSON(t) == ParseText(t, FALSE).ok

---------------------------------------------------------------------------
(* The replies of the completion service                                   *)

\* The lexemes of the JSON text of a value (json.dumps), used to build the
\* replies below.
RECURSIVE JsonText(_), JoinItems(_), JoinMembers(_)
JsonText(v) ==
    CASE v = PyNone -> <<Word("null")>>
      [] v = PyTrue -> <<Word("true")>>
      [] v = PyInt(5) -> <<Word("5")>>
      [] v = PyNaN -> <<Word("NaN")>>
      [] IsStr(v) -> <<Quoted(IF v.str = <<>> THEN "" ELSE v.str[1].v)>>
      [] IsList(v) -> <<Punct("[")>> \o JoinItems(v.list) \o <<Punct("]")>>
      [] IsDict(v) -> <<Punct("{")>> \o JoinMembers(v.dict) \o <<Punct("}")>>

JoinItems(items) ==
    IF items = <<>> THEN <<>>
    ELSE JsonText(Head(items))
         \o (IF Len(items) = 1 THEN <<>> ELSE <<Punct(",")>> \o JoinItems(Tail(items)))

JoinMembers(members) ==
    IF members = <<>> THEN <<>>
    ELSE <<Quoted(Head(members).key), Punct(":")>> \o JsonText(Head(members).val)
         \o (IF Len(members) = 1 THEN <<>> ELSE <<Punct(",")>> \o JoinMembers(Tail(members)))

Member(k, w) == [key |-> k, val |-> PyStr(w)]

\* The objects a reply holds: with both fields, with one, with none.
ReplyObjects ==
    { PyDict(<<>>),
      PyDict(<<Member("title", "Login flow")>>),
      PyDict(<<Member("description", "x")>>),
      PyDict(<<Member("title", "Model response"), Member("description", "x")>>) }

\* The elements of a reply's array: objects and non-objects.
ReplyElements == ReplyObjects \cup {PyInt(5), PyNaN}

ReplyArrays == {PyList(s) : s \in UNION {[1..n -> ReplyElements] : n \in 0..MaxItems}}

ReplyValues ==
    ReplyArrays \cup ReplyObjects \cup {PyNone, PyTrue, PyInt(5), PyNaN, PyStr("x")}

\* Replies that are no single value: free text, the empty text, an array
\* cut short, text after the value.
BrokenTexts ==
    { <<>>, <<Word("x")>>, <<Word("not"), Word("json")>>,
      <<Punct("["), Quoted("x"), Punct(",")>>,
      <<Punct("["), Punct("{"), Quoted("title"), Punct(":"), Quoted("x"), Punct("]")>>,
      <<Punct("["), Punct("]"), Punct("]")>>,
      <<Punct("{"), Quoted("title"), Punct("}")>> }

\* choices[0].message.content
Contents == {JsonText(v) : v \in ReplyValues} \cup BrokenTexts

---------------------------------------------------------------------------
(* HTTP responses                                                          *)

Statuses == {200, 300, 404, 500}

NoResponse == [none |-> TRUE]

Completion(c) ==
    [object |-> "chat.completion",
     choices |-> <<[index |-> 0, message |-> [role |-> "assistant", content |-> c]]>>]

\* The JSON bodies of a completion response: choices[0].message.content
\* with any of the keys on the way missing, or an empty choices list.
Completions ==
    {Completion(c) : c \in Contents}
    \cup { [object |-> "chat.completion"],
           [object |-> "chat.completion", choices |-> <<>>],
           [object |-> "chat.completion", choices |-> <<[index |-> 0]>>],
           [object |-> "chat.completion",
            choices |-> <<[index |-> 0, message |-> [role |-> "assistant"]]>>] }

HtmlBody == [text |-> "<html>"]

\* A status below 400 comes with any body; an error status with an error page
\* (neither callable reads the body of an error response).
ResponsesWith(jsons) ==
    {[status_code |-> st, body |-> b]
        : st \in {x \in Statuses : x < 400}, b \in {[json |-> j] : j \in jsons} \cup {HtmlBody}}
    \cup {[status_code |-> st, body |-> HtmlBody] : st \in {x \in Statuses : x >= 400}}

GetResponses == ResponsesWith(FetchedFiles)
PostResponses == ResponsesWith(Completions)

\* requests.Response.ok: raise_for_status() raises for 400 <= status < 600.
Ok(resp) == ~(resp.status_code >= 400 /\ resp.status_code < 600)

Raised(exc) == [raised |-> exc]
Returned(v) == [returned |-> v]
HasRaised(out) == HasKey(out, "raised")

\* resp.json()
ResponseJson(resp) ==
    IF HasKey(resp.body, "json") THEN Returned(resp.body.json) ELSE Raised("JSONDecodeError")

---------------------------------------------------------------------------
(* FigmaClient.get_file                                                    *)

\* One GET; raise_for_status() when not resp.ok, otherwise resp.json().
\* `sent` are the requests the call issues, `out` how it ends.
get_file(resp) ==
    [sent |-> <<"GET">>,
     out  |-> IF ~Ok(resp) THEN Raised("HTTPError") ELSE ResponseJson(resp)]

---------------------------------------------------------------------------
(* generate_features_from_figma                                            *)

\* data.get("choices", [{}])[0].get("message", {}).get("content", "")
ContentOf(data) ==
    LET choices == IF HasKey(data, "choices") THEN data.choices ELSE <<[index |-> 0]>>
    IN  IF choices = <<>> THEN Raised("IndexError")
        ELSE LET first == choices[1]
             IN  Returned(IF HasKey(first, "message") /\ HasKey(first.message, "content")
                          THEN first.message.content
                          ELSE <<>>)

\* {"title": item.get("title", "Untitled Feature"),
\*  "description": item.get("description", "")}
\* FeatureOf without the default of the title.
FeatureOfNoDefault(item) ==
    [title       |-> DictGet(item.dict, "title", PyStr("")),
     description |-> DictGet(item.dict, "description", PyStr(""))]

FeatureOf(item) ==
    [title       |-> DictGet(item.dict, "title", PyStr("Untitled Feature")),
     description |-> DictGet(item.dict, "description", PyStr(""))]

\* [ ... for item in features if isinstance(item, dict)]
RECURSIVE FeaturesOf(_)
FeaturesOf(items) ==
    IF items = <<>> THEN <<>>
    ELSE (IF IsDict(Head(items)) THEN <<FeatureOf(Head(items))>> ELSE <<>>)
         \o FeaturesOf(Tail(items))

\* [{"title": "Model response", "description": content}]
Fallback(content) == <<[title |-> PyStr("Model response"), description |-> [str |-> content]]>>

\* The try block: json.loads(content), then the comprehension over what it
\* returned.  Iterating a list yields its elements, a str its characters and
\* a dict its keys (none of them a dict); any other value is not iterable and
\* the TypeError is not caught by `except json.JSONDecodeError`.
\* ParseFeatures with `except Exception` in the place of
\* `except json.JSONDecodeError`.
ParseFeaturesCatchAll(content) ==
    LET parsed == json_loads(content) IN
    IF ~parsed.ok THEN Returned(Fallback(content))
    ELSE CASE IsList(parsed.val) -> Returned(FeaturesOf(parsed.val.list))
           [] IsStr(parsed.val) \/ IsDict(parsed.val) -> Returned(<<>>)
           [] OTHER -> Returned(Fallback(content))

ParseFeatures(content) ==
    LET parsed == json_loads(content) IN
    IF ~parsed.ok THEN Returned(Fallback(content))
    ELSE CASE IsList(parsed.val) -> Returned(FeaturesOf(parsed.val.list))
           [] IsStr(parsed.val) \/ IsDict(parsed.val) -> Returned(<<>>)
           [] OTHER -> Raised("TypeError")

\* generate_features_from_figma without the early return for no names.
generate_features_always_posts(names, resp) ==
    [sent |-> <<"POST">>,
     out  |-> IF ~Ok(resp) THEN Raised("HTTPError")
              ELSE LET data == ResponseJson(resp) IN
                   IF HasRaised(data) THEN data
                   ELSE LET content == ContentOf(data.returned) IN
                        IF HasRaised(content) THEN content
                        ELSE ParseFeatures(content.returned)]

generate_features_from_figma(names, resp) ==
    IF names = <<>> THEN [sent |-> <<>>, out |-> Returned(<<>>)]
    ELSE [sent |-> <<"POST">>,
          out  |-> IF ~Ok(resp) THEN Raised("HTTPError")
                   ELSE LET data == ResponseJson(resp) IN
                        IF HasRaised(data) THEN data
                        ELSE LET content == ContentOf(data.returned) IN
                             IF HasRaised(content) THEN content
                             ELSE ParseFeatures(content.returned)]

---------------------------------------------------------------------------
(* main                                                                    *)

\* os.environ.get(name) is truthy: the variable is set and not empty.
EnvSet(env, name) == HasKey(env, name) /\ env[name] # ""

\* Configured without the test of openai_key.
ConfiguredFigmaOnly(env) ==
    EnvSet(env, "FIGMA_TOKEN") /\ EnvSet(env, "FIGMA_FILE_KEY")

\* figma_token and figma_file_key and openai_key
Configured(env) ==
    EnvSet(env, "FIGMA_TOKEN") /\ EnvSet(env, "FIGMA_FILE_KEY") /\ EnvSet(env, "OPENAI_API_KEY")

EnvKeys == {"FIGMA_TOKEN", "FIGMA_FILE_KEY", "OPENAI_API_KEY"}

\* os.environ: each of the three variables unset, empty or set.
Environs ==
    {[k \in DOMAIN f \cup {"PATH"} |-> IF k = "PATH" THEN "/usr/bin" ELSE f[k]]
        : f \in UNION {[ks -> {"", "secret"}] : ks \in SUBSET EnvKeys}}

PlainEnviron == [PATH |-> "/usr/bin"]

---------------------------------------------------------------------------
(* The runs: one call of a callable of the module                          *)

Entries == {"main", "get_file", "extract_frame_names", "generate_features_from_figma"}

\* The name sequences the generator is called with directly.
NameSeqs == UNION {[1..n -> {"Login", "Home"}] : n \in 0..MaxNodes}

Init ==
    /\ entry \in Entries
    /\ pc = "start"
    /\ environ \in (IF entry = "main" THEN Environs ELSE {PlainEnviron})
    /\ file_data \in (IF entry = "extract_frame_names" THEN Files ELSE {NoFile})
    /\ frame_names \in (IF entry = "generate_features_from_figma" THEN NameSeqs ELSE {<<>>})
    /\ get_resp = NoResponse
    /\ post_resp = NoResponse
    /\ requests = <<>>
    /\ calls = <<>>
    /\ stdout = <<>>
    /\ outcome = ""
    /\ features = <<>>

\* How a call that ended with `out` ends the run.
Ending(out) == IF HasRaised(out) THEN out.raised ELSE "returned"

\* A direct call of FigmaClient(token).get_file(file_key).
CallGetFile ==
    /\ entry = "get_file" /\ pc = "start"
    /\ \E resp \in GetResponses :
         LET r == get_file(resp) IN
         /\ requests' = requests \o r.sent
         /\ get_resp' = resp
         /\ file_data' = IF HasRaised(r.out) THEN file_data ELSE r.out.returned
         /\ outcome' = Ending(r.out)
    /\ pc' = "done"
    /\ UNCHANGED <<entry, environ, frame_names, post_resp, calls, stdout, features>>

\* A direct call of extract_frame_names(file_data).
CallExtract ==
    /\ entry = "extract_frame_names" /\ pc = "start"
    /\ frame_names' = extract_frame_names(file_data)
    /\ outcome' = "returned"
    /\ pc' = "done"
    /\ UNCHANGED <<entry, environ, file_data, get_resp, post_resp, requests, calls,
                   stdout, features>>

\* What a call of the generator with frame_names does to the state.
Generate(resp) ==
    LET r == generate_features_from_figma(frame_names, resp) IN
    /\ requests' = requests \o r.sent
    /\ post_resp' = IF r.sent = <<>> THEN post_resp ELSE resp
    /\ features' = IF HasRaised(r.out) THEN features ELSE r.out.returned
    /\ outcome' = Ending(r.out)

\* A direct call of generate_features_from_figma(frame_names, key).
CallGenerate ==
    /\ entry = "generate_features_from_figma" /\ pc = "start"
    /\ \E resp \in PostResponses : Generate(resp)
    /\ pc' = "done"
    /\ UNCHANGED <<entry, environ, file_data, frame_names, get_resp, calls, stdout>>

\* main, lines 191-199: read the environment; without the three values print
\* the guidance and return.
MainConfigure ==
    /\ entry = "main" /\ pc = "start"
    /\ IF Configured(environ)
       THEN /\ pc' = "get_file"
            /\ UNCHANGED <<stdout, outcome>>
       ELSE /\ stdout' = Append(stdout, "guidance")
            /\ outcome' = "returned"
            /\ pc' = "done"
    /\ UNCHANGED <<entry, environ, file_data, frame_names, get_resp, post_resp,
                   requests, calls, features>>

\* main, lines 200-201: the client fetches the file; an exception leaves main.
MainGetFile ==
    /\ entry = "main" /\ pc = "get_file"
    /\ calls' = Append(calls, "Client")
    /\ \E resp \in GetResponses :
         LET r == get_file(resp) IN
         /\ requests' = requests \o r.sent
         /\ get_resp' = resp
         /\ IF HasRaised(r.out)
            THEN /\ outcome' = r.out.raised
                 /\ pc' = "done"
                 /\ UNCHANGED file_data
            ELSE /\ file_data' = r.out.returned
                 /\ pc' = "extract"
                 /\ UNCHANGED outcome
    /\ UNCHANGED <<entry, environ, frame_names, post_resp, stdout, features>>

\* MainExtract without the return for no names.
MainExtractNoReturn ==
    /\ entry = "main" /\ pc = "extract"
    /\ calls' = Append(calls, "Extractor")
    /\ frame_names' = extract_frame_names(file_data)
    /\ stdout' = Append(stdout, "found")
    /\ pc' = "generate"
    /\ UNCHANGED <<entry, environ, file_data, get_resp, post_resp, requests, features,
                   outcome>>

\* main, lines 202-206: extract the names; with none, say so and return.
MainExtract ==
    /\ entry = "main" /\ pc = "extract"
    /\ calls' = Append(calls, "Extractor")
    /\ frame_names' = extract_frame_names(file_data)
    /\ IF frame_names' = <<>>
       THEN /\ stdout' = Append(stdout, "no frames")
            /\ outcome' = "returned"
            /\ pc' = "done"
       ELSE /\ stdout' = Append(stdout, "found")
            /\ pc' = "generate"
            /\ UNCHANGED outcome
    /\ UNCHANGED <<entry, environ, file_data, get_resp, post_resp, requests, features>>

\* main, lines 207-210: generate the features and print them.
MainGenerate ==
    /\ entry = "main" /\ pc = "generate"
    /\ calls' = Append(calls, "Generator")
    /\ \E resp \in PostResponses : Generate(resp)
    /\ stdout' = IF outcome' = "returned" THEN Append(stdout, "features") ELSE stdout
    /\ pc' = "done"
    /\ UNCHANGED <<entry, environ, file_data, frame_names, get_resp>>

Next ==
    \/ CallGetFile
    \/ CallExtract
    \/ CallGenerate
    \/ MainConfigure
    \/ MainGetFile
    \/ MainExtract
    \/ MainGenerate

Spec == Init /\ [][Next]_vars

---------------------------------------------------------------------------
(* Properties                                                              *)

Done == pc = "done"

\* The children of a node of the document, none when the key is missing.
ChildrenOf(d) == IF HasKey(d, "children") THEN d.children ELSE <<>>

\* The pages of a file: the children of its document root.
PagesIn(fd) == IF HasKey(fd, "document") THEN ChildrenOf(fd.document) ELSE <<>>

\* The positions <<page, node>> of the depth-two nodes that are frames with
\* a non-empty name.
NamedFrames(fd) ==
    {<<p, n>> \in UNION {{<<q, m>> : m \in 1..Len(ChildrenOf(PagesIn(fd)[q]))}
                         : q \in 1..Len(PagesIn(fd))}
        : LET node == ChildrenOf(PagesIn(fd)[p])[n]
          IN  node.type = "FRAME" /\ HasKey(node, "name") /\ node.name # ""}

\* Document order: page order, then node order within the page.
Precedes(a, b) == a[1] < b[1] \/ (a[1] = b[1] /\ a[2] < b[2])

\* The place in the output of the frame at position q.
RankOf(fd, q) == Cardinality({r \in NamedFrames(fd) : Precedes(r, q)}) + 1

\* `names` lists the names of the named depth-two frames of fd, one entry
\* per frame, in document order.
ListsNamedFrames(fd, names) ==
    /\ Len(names) = Cardinality(NamedFrames(fd))
    /\ \A q \in NamedFrames(fd) :
          names[RankOf(fd, q)] = ChildrenOf(PagesIn(fd)[q[1]])[q[2]].name

\* extract_frame_names has returned in this state (called directly or by main).
Extracted ==
    \/ entry = "extract_frame_names" /\ Done
    \/ entry = "main" /\ "Extractor" \in {calls[i] : i \in 1..Len(calls)}

\* C1: extract_frame_names returns exactly the names of the depth-two nodes
\* of type FRAME with a non-empty name, in document order and with
\* duplicates kept; nothing else contributes, and a document without pages
\* or depth-two nodes yields the empty sequence.
C1_ExtractsNamedFrames ==
    Extracted => ListsNamedFrames(file_data, frame_names)

\* Two frames of the same name on two pages were extracted, both kept.
C1_Witness ==
    /\ entry = "extract_frame_names" /\ Done
    /\ Len(PagesIn(file_data)) = 2
    /\ frame_names = <<"Login", "Login">>

CountOf(seq, x) == Cardinality({i \in 1..Len(seq) : seq[i] = x})

\* A status of the HTTP class 2xx (Successful).
Success(resp) == resp.status_code >= 200 /\ resp.status_code < 300

\* The generator was called with names and its POST was answered.
Answered == post_resp # NoResponse

\* The answer holds a first choice with a message content.
HasContent(resp) ==
    /\ HasKey(resp.body, "json")
    /\ HasKey(resp.body.json, "choices")
    /\ resp.body.json.choices # <<>>
    /\ HasKey(resp.body.json.choices[1], "message")
    /\ HasKey(resp.body.json.choices[1].message, "content")

\* The reply text: the first choice's message content.
ReplyOf(resp) == resp.body.json.choices[1].message.content

\* Every element of fs is a record of a title and a description.
WellFormed(fs) == \A k \in 1..Len(fs) : DOMAIN fs[k] = {"title", "description"}

\* fs is the one diagnostic record for the text t.
IsFallbackFor(fs, t) ==
    /\ Len(fs) = 1
    /\ fs[1].title = PyStr("Model response")
    /\ fs[1].description = [str |-> t]

\* C2: with names and a success response whose first choice's content is
\* not valid JSON, the generator does not raise and returns exactly one
\* record, titled "Model response", whose description is the raw reply.
C2_InvalidJsonFallsBack ==
    (Answered /\ Success(post_resp) /\ HasContent(post_resp)
        /\ ~IsValidJSON(ReplyOf(post_resp)))
    => (outcome = "returned" /\ IsFallbackFor(features, ReplyOf(post_resp)))

\* C2, for the replies json.loads rejects: the same result.
C2_RejectedReplyFallsBack ==
    (Answered /\ Success(post_resp) /\ HasContent(post_resp)
        /\ ~json_loads(ReplyOf(post_resp)).ok)
    => (outcome = "returned" /\ IsFallbackFor(features, ReplyOf(post_resp)))

\* The member of an object the key names: the last one of that key.
FieldOf(members, key, default) ==
    LET at == {j \in 1..Len(members) : members[j].key = key}
    IN  IF at = {} THEN default
        ELSE members[CHOOSE j \in at : \A i \in at : i <= j].val

\* fs holds one record per object of items, in order, with the defaults.
ListsObjects(items, fs) ==
    LET objects == {i \in 1..Len(items) : IsDict(items[i])}
        rank(i) == Cardinality({j \in objects : j < i}) + 1
    IN  /\ Len(fs) = Cardinality(objects)
        /\ WellFormed(fs)
        /\ \A i \in objects :
              /\ fs[rank(i)].title = FieldOf(items[i].dict, "title", PyStr("Untitled Feature"))
              /\ fs[rank(i)].description = FieldOf(items[i].dict, "description", PyStr(""))

\* The reply parses, and to a list.
ReplyIsArray(resp) ==
    /\ HasContent(resp)
    /\ json_loads(ReplyOf(resp)).ok
    /\ IsList(json_loads(ReplyOf(resp)).val)

\* C3: when the reply parses as a JSON array the result holds one record
\* per element that is an object, in the array's order, none for any other
\* element; each record has a title (the object's, else "Untitled Feature")
\* and a description (the object's, else the empty string).
C3_ArrayReplyListsObjects ==
    (Answered /\ Ok(post_resp) /\ ReplyIsArray(post_resp))
    => (outcome = "returned"
        /\ ListsObjects(json_loads(ReplyOf(post_resp)).val.list, features))

\* An array of a non-object and an object without a title gave one record
\* with the default title.
C3_Witness ==
    /\ Answered /\ Ok(post_resp) /\ ReplyIsArray(post_resp)
    /\ Len(json_loads(ReplyOf(post_resp)).val.list) = 2
    /\ Len(features) = 1
    /\ features[1].title = PyStr("Untitled Feature")
    /\ features[1].description = PyStr("x")

\* C4: for every success response, whatever the reply text is, the
\* generator never raises and returns a list of records that each have a
\* title and a description.
C4_NeverRaisesOnReply ==
    (Answered /\ Success(post_resp) /\ HasContent(post_resp))
    => (outcome = "returned" /\ WellFormed(features))

\* C5: called with no names the generator returns the empty list and sends
\* no request.
C5_NoNamesNoRequest ==
    (entry = "generate_features_from_figma" /\ frame_names = <<>>)
    => /\ requests = <<>>
       /\ post_resp = NoResponse
       /\ Done => (outcome = "returned" /\ features = <<>>)

\* The generator was called with no names and has returned.
C5_Witness ==
    entry = "generate_features_from_figma" /\ frame_names = <<>> /\ Done

\* The GET of get_file was answered.
Fetched == get_resp # NoResponse

\* The run ended with an exception that left the callable.
Failed == outcome \notin {"", "returned"}

\* C6: a non-success status from either service always ends the call with
\* the transport error: nothing is returned, the error is not swallowed and
\* the call issued exactly one request.
C6_NonSuccessRaises ==
    /\ (Fetched /\ ~Success(get_resp))
       => (Failed /\ file_data = NoFile /\ requests = <<"GET">>)
    /\ (Answered /\ ~Success(post_resp))
       => (Failed /\ features = <<>> /\ CountOf(requests, "POST") = 1)

\* C6, for the statuses 400 to 599: the same result.
C6_ErrorStatusRaises ==
    /\ (Fetched /\ get_resp.status_code >= 400)
       => (outcome = "HTTPError" /\ file_data = NoFile /\ requests = <<"GET">>)
    /\ (Answered /\ post_resp.status_code >= 400)
       => (outcome = "HTTPError" /\ features = <<>> /\ CountOf(requests, "POST") = 1)

\* One of the three variables is not in the environment.
Unset(env) == \E k \in EnvKeys : ~HasKey(env, k)

\* C7: when one of FIGMA_TOKEN, FIGMA_FILE_KEY, OPENAI_API_KEY is absent,
\* main prints the guidance and returns normally, and issues no request.
C7_UnsetReturnsEarly ==
    (entry = "main" /\ Unset(environ))
    => /\ requests = <<>>
       /\ calls = <<>>
       /\ Done => (outcome = "returned" /\ stdout = <<"guidance">>)

\* main has returned with only OPENAI_API_KEY absent.
C7_Witness ==
    /\ entry = "main" /\ Done
    /\ DOMAIN environ = {"PATH", "FIGMA_TOKEN", "FIGMA_FILE_KEY"}
    /\ environ["FIGMA_TOKEN"] # "" /\ environ["FIGMA_FILE_KEY"] # ""

\* A run of main with the three credentials whose fetch returned a file.
FetchedRun == entry = "main" /\ Configured(environ) /\ file_data # NoFile

\* C8: in every run of main with the three credentials whose fetch
\* succeeds, Client, Extractor and Generator are invoked once each, in that
\* order, whatever the document, also when no frame name is extracted.
C8_AllThreeInvoked ==
    (FetchedRun /\ Done) => calls = <<"Client", "Extractor", "Generator">>

\* C8, amended: Client and Extractor are invoked once each, in that order,
\* and the Generator once after them exactly when a frame name was extracted.
C8_GeneratorOnlyWithFrames ==
    (FetchedRun /\ Done)
    => calls = IF frame_names = <<>> THEN <<"Client", "Extractor">>
               ELSE <<"Client", "Extractor", "Generator">>

\* A run of main that invoked the three components and printed the features.
C8_Witness ==
    /\ FetchedRun /\ Done
    /\ calls = <<"Client", "Extractor", "Generator">>
    /\ stdout = <<"found", "features">>

\* C9: main issues at most one GET and at most one POST, and a POST only
\* after the GET returned a success response and the extraction of its body
\* gave a name; a failed GET or an empty extraction is followed by no POST.
C9_PostOnlyAfterSuccessfulGet ==
    entry = "main"
    => /\ CountOf(requests, "GET") <= 1
       /\ CountOf(requests, "POST") <= 1
       /\ CountOf(requests, "POST") = 1
          => /\ requests = <<"GET", "POST">>
             /\ Success(get_resp)
             /\ frame_names # <<>>
             /\ frame_names = extract_frame_names(file_data)

\* C9, with a GET that returned a file in the place of a success response.
C9_PostOnlyAfterFetchedFile ==
    entry = "main"
    => /\ CountOf(requests, "GET") <= 1
       /\ CountOf(requests, "POST") <= 1
       /\ CountOf(requests, "POST") = 1
          => /\ requests = <<"GET", "POST">>
             /\ file_data # NoFile
             /\ frame_names # <<>>
             /\ frame_names = extract_frame_names(file_data)

\* The text the generator parsed: the reply, or "" for a missing key.
TextOf(resp) == IF HasContent(resp) THEN ReplyOf(resp) ELSE <<>>

\* The generator returned exactly one record, titled "Model response".
LooksLikeFallback ==
    /\ Answered /\ outcome = "returned"
    /\ Len(features) = 1
    /\ features[1].title = PyStr("Model response")

\* C10: the fallback is recognisable from the result alone: the generator
\* returns exactly one record titled "Model response" only for a reply that
\* is not valid JSON.
C10_FallbackOnlyForInvalidJson ==
    LooksLikeFallback => ~IsValidJSON(TextOf(post_resp))

\* C10, amended: exactly one record titled "Model response" is returned only
\* for a reply json.loads rejects or for a reply that parses to a list with
\* exactly one object, whose title is "Model response".
C10_FallbackOrOneSuchObject ==
    LooksLikeFallback
    => LET parsed == json_loads(TextOf(post_resp)) IN
       \/ ~parsed.ok
       \/ /\ IsList(parsed.val)
          /\ \E i \in 1..Len(parsed.val.list) :
                /\ IsDict(parsed.val.list[i])
                /\ FieldOf(parsed.val.list[i].dict, "title", PyNone) = PyStr("Model response")
                /\ \A j \in 1..Len(parsed.val.list) : IsDict(parsed.val.list[j]) => j = i

\* The generator returned the diagnostic record for a reply of free text.
C10_Witness ==
    /\ LooksLikeFallback
    /\ HasContent(post_resp)
    /\ ReplyOf(post_resp) = <<Word("not"), Word("json")>>
    /\ features[1].description = [str |-> <<Word("not"), Word("json")>>]

===========================================================================
